---- MODULE Spec2Model ----
(***************************************************************************)
(* Model of the USGS client of colorado_river/usgs.py: the response        *)
(* parser of fetch_iv / fetch_dv (JSON envelope -> time-indexed table) and *)
(* the Parquet cache of load_or_fetch_iv / load_or_fetch_dv.               *)
(*                                                                         *)
(* Conventions                                                             *)
(*  - time is counted in minutes; a calendar day is 24 * 60 minutes;       *)
(*  - a JSON object is a function from key strings to values, a JSON list  *)
(*    a sequence; JSON null is the string None;                            *)
(*  - a timestamp string is a record [form, wall, off]: its wall-clock     *)
(*    reading, its UTC offset, and whether it is ISO text at all;          *)
(*  - a table cell is <<x>> for the float x and <<>> for a missing value;  *)
(*  - a table is [tz, name, columns, rows]: rows is a sequence of          *)
(*    [key, cells], cells aligned with columns.                            *)
(***************************************************************************)
EXTENDS Integers, Sequences, FiniteSets, TLC

\* ------------------------------------------------------------------ bounds
MaxSeries  == 2    \* time-series entries in a response envelope
MaxRecords == 2    \* records in a response envelope, over all its series
MaxCalls   == 3    \* calls of load_or_fetch_iv / load_or_fetch_dv started
MaxClock   == 2    \* ticks of the wall clock
MaxSamples == 2    \* rows of a table handed to to_local / daily_features
MaxDays    == 8    \* rows of a table handed to rolling_anoms

\* --------------------------------------------------------- program constants
DISCHARGE_CFS == "00060"
STAGE_FT      == "00065"

None == "<None>"
NaN  == <<>>
Num(x) == <<x>>

\* ------------------------------------------------------------ JSON helpers
EmptyObject == [k \in {} |-> None]
HasKey(obj, k) == k \in DOMAIN obj

\* ---------------------------------------------------- timestamps and floats
\* dtp.isoparse raises ValueError on text that is no ISO-8601 timestamp
isoparse_ok(s) == s.form # "garbage"
\* isoparse(s).astimezone(timezone.utc): the instant, in minutes UTC
to_utc(s) == s.wall - s.off
\* isoparse(s).date(): the calendar date of the wall-clock reading
to_date(s) == s.wall \div (24 * 60)
\* float(text): the numeric literals the model knows; anything else raises
float_ok(text) == text \in {"10", "20"}
float(text) == CASE text = "10" -> 10 [] text = "20" -> 20

\* ------------------------------------------------------------- pandas model
Keys(rows) == [i \in 1..Len(rows) |-> rows[i].key]
KeySet(rows) == {rows[i].key : i \in 1..Len(rows)}
CountKey(rows, k) == Cardinality({i \in 1..Len(rows) : rows[i].key = k})
is_unique(rows) == \A i, j \in 1..Len(rows) : rows[i].key = rows[j].key => i = j

\* insert a row after every row whose key is <= its own (stable)
RECURSIVE InsertRow(_, _)
InsertRow(sorted, r) ==
  IF sorted = <<>> THEN <<r>>
  ELSE IF Head(sorted).key <= r.key THEN <<Head(sorted)>> \o InsertRow(Tail(sorted), r)
  ELSE <<r>> \o sorted

RECURSIVE SortRows(_)
SortRows(rows) ==
  IF rows = <<>> THEN <<>>
  ELSE InsertRow(SortRows(SubSeq(rows, 1, Len(rows) - 1)), rows[Len(rows)])

\* DataFrame.sort_index(): rows in ascending key order, equal keys in input order
sort_index(df) == [df EXCEPT !.rows = SortRows(df.rows)]

RECURSIVE SortedKeys(_)
SortedKeys(S) ==
  IF S = {} THEN <<>>
  ELSE LET m == CHOOSE x \in S : \A y \in S : x <= y
       IN <<m>> \o SortedKeys(S \ {m})

RECURSIVE Repeat(_, _)
Repeat(x, n) == IF n = 0 THEN <<>> ELSE <<x>> \o Repeat(x, n - 1)

RECURSIVE Flatten(_)
Flatten(ss) == IF ss = <<>> THEN <<>> ELSE Head(ss) \o Flatten(Tail(ss))

MaxOf(S) == CHOOSE x \in S : \A y \in S : y <= x

AllSame(frames) == \A i \in 1..Len(frames) : Keys(frames[i].rows) = Keys(frames[1].rows)

\* union_indexes of pd.concat(axis=1).  DatetimeIndex operands (fetch_iv) are
\* united keeping a repeated key as often as the frame repeating it most and
\* the result is sorted; plain Index operands (fetch_dv) are kept as they are
\* when all equal, and united without repeats otherwise.
union_indexes(frames, flavor) ==
  LET K == UNION {KeySet(frames[i].rows) : i \in 1..Len(frames)}
      mult(k) == IF flavor = "iv"
                 THEN MaxOf({CountKey(frames[i].rows, k) : i \in 1..Len(frames)})
                 ELSE 1
      ks == SortedKeys(K)
  IN IF AllSame(frames) THEN Keys(frames[1].rows)
     ELSE Flatten([j \in 1..Len(ks) |-> Repeat(ks[j], mult(ks[j]))])

\* the join filling an absent reading with 0 instead of a missing value
Reindexed_fill0(f, U, j) ==
  IF Keys(f.rows) = U THEN f.rows[j].cells
  ELSE IF \E i \in 1..Len(f.rows) : f.rows[i].key = U[j]
       THEN f.rows[CHOOSE i \in 1..Len(f.rows) : f.rows[i].key = U[j]].cells
       ELSE [c \in 1..Len(f.columns) |-> Num(0)]

\* the cells frame f contributes to row j of the joined table
Reindexed(f, U, j) ==
  IF Keys(f.rows) = U THEN f.rows[j].cells
  ELSE IF \E i \in 1..Len(f.rows) : f.rows[i].key = U[j]
       THEN f.rows[CHOOSE i \in 1..Len(f.rows) : f.rows[i].key = U[j]].cells
       ELSE [c \in 1..Len(f.columns) |-> NaN]

\* pd.concat(frames, axis=1) raises InvalidIndexError when a frame whose index
\* repeats a key has to be reindexed
concat_ok(frames, flavor) ==
  LET U == union_indexes(frames, flavor)
  IN \A i \in 1..Len(frames) : Keys(frames[i].rows) = U \/ is_unique(frames[i].rows)

\* pd.concat(frames, axis=1): outer join of the frames on their index
concat(frames, flavor) ==
  LET U == union_indexes(frames, flavor)
  IN [tz      |-> frames[1].tz,
      name    |-> frames[1].name,
      columns |-> Flatten([i \in 1..Len(frames) |-> frames[i].columns]),
      rows    |-> [j \in 1..Len(U) |->
                    [key   |-> U[j],
                     cells |-> Flatten([i \in 1..Len(frames) |-> Reindexed(frames[i], U, j)])]]]

\* DataFrame.rename(columns={k: v ...})
rename(df, old, new) ==
  [df EXCEPT !.columns = [c \in 1..Len(df.columns) |->
                            IF df.columns[c] = old THEN new ELSE df.columns[c]]]

\* ------------------------------------------------------------- HTTP client
\* r.raise_for_status(): a 4xx/5xx answer becomes an exception; a request
\* that exceeds timeout=60 raises before any answer exists
transport_error(resp) ==
  IF resp.status = "timeout" THEN "TimeoutException"
  ELSE IF resp.status # "200" THEN "HTTPStatusError"
  ELSE "none"

\* the status check dropped: whatever body came back is parsed
_nwis_request_unchecked(resp) == [raised |-> "none", json |-> resp.body]

\* _nwis_request: the JSON body of a successful answer
_nwis_request(resp) ==
  IF transport_error(resp) # "none"
  THEN [raised |-> transport_error(resp), json |-> EmptyObject]
  ELSE [raised |-> "none", json |-> resp.body]

\* ------------------------------------------------------- fetch_iv / fetch_dv
NoTable == [tz |-> "none", name |-> "none", columns |-> <<>>, rows |-> <<>>]
Raise(e)  == [status |-> "raise", error |-> e, table |-> NoTable]
Return(t) == [status |-> "ok", error |-> "none", table |-> t]
NotRun == [status |-> "none", error |-> "none", table |-> NoTable]

\* pd.DataFrame(index=pd.DatetimeIndex([], tz=timezone.utc))
EmptyIV == [tz |-> "UTC", name |-> "none", columns |-> <<>>, rows |-> <<>>]
\* pd.DataFrame(index=pd.Index([], name="date"))
EmptyDV == [tz |-> "naive", name |-> "date", columns |-> <<>>, rows |-> <<>>]

\* js.get("value", {}).get("timeSeries", [])
timeSeries(js) ==
  IF HasKey(js, "value") /\ HasKey(js.value, "timeSeries") THEN js.value.timeSeries ELSE <<>>

\* the exception the body of the record loop raises on record v, if any:
\* v["dateTime"], isoparse, v["value"], float, in that order
record_error(v) ==
  IF ~HasKey(v, "dateTime") THEN "KeyError"
  ELSE IF ~isoparse_ok(v.dateTime) THEN "ValueError"
  ELSE IF ~HasKey(v, "value") THEN "KeyError"
  ELSE IF v.value \notin {"", None} /\ ~float_ok(v.value) THEN "ValueError"
  ELSE "none"

FirstError(errs) ==
  IF \A i \in 1..Len(errs) : errs[i] = "none" THEN "none"
  ELSE errs[CHOOSE i \in 1..Len(errs) : errs[i] # "none" /\ \A j \in 1..(i - 1) : errs[j] = "none"]

\* the exception one pass of the series loop raises on entry ts, if any:
\* ts["variable"]["variableCode"][0]["value"], ts["values"][0]["value"], then
\* the records in order
series_error(ts) ==
  IF ~HasKey(ts, "variable") THEN "KeyError"
  ELSE IF ~HasKey(ts.variable, "variableCode") THEN "KeyError"
  ELSE IF Len(ts.variable.variableCode) = 0 THEN "IndexError"
  ELSE IF ~HasKey(ts.variable.variableCode[1], "value") THEN "KeyError"
  ELSE IF ~HasKey(ts, "values") THEN "KeyError"
  ELSE IF Len(ts.values) = 0 THEN "IndexError"
  ELSE IF ~HasKey(ts.values[1], "value") THEN "KeyError"
  ELSE FirstError([i \in 1..Len(ts.values[1].value) |-> record_error(ts.values[1].value[i])])

\* the empty literal read as zero instead of as a missing value
cell_zero(v) == IF v.value \in {"", None} THEN Num(0) ELSE Num(float(v.value))

\* float(v["value"]) if v["value"] not in ("", None) else None
cell(v) == IF v.value \in {"", None} THEN NaN ELSE Num(float(v.value))

\* the index entry of a record: the UTC instant (iv), the calendar date (dv)
index_key(v, flavor) == IF flavor = "iv" THEN to_utc(v.dateTime) ELSE to_date(v.dateTime)

\* pd.DataFrame(recs).set_index(...).sort_index() of one well-formed series
series_frame(ts, flavor) ==
  LET values == ts.values[1].value
  IN sort_index([tz      |-> IF flavor = "iv" THEN "UTC" ELSE "naive",
                 name    |-> IF flavor = "iv" THEN "time" ELSE "date",
                 columns |-> <<ts.variable.variableCode[1].value>>,
                 rows    |-> [i \in 1..Len(values) |->
                               [key |-> index_key(values[i], flavor), cells |-> <<cell(values[i])>>]]])

\* the "if recs:" guard dropped
has_recs_always(ts) == TRUE

\* "if recs:" a series without records contributes no frame
has_recs(ts) == Len(ts.values[1].value) > 0

\* the frames list after the series loop
series_frames(tss, flavor) ==
  LET kept == SelectSeq(tss, has_recs)
  IN [i \in 1..Len(kept) |-> series_frame(kept[i], flavor)]

\* the part of fetch_iv / fetch_dv after the request: series loop, join, rename
parse_envelope(js, flavor) ==
  LET tss  == timeSeries(js)
      errs == [i \in 1..Len(tss) |-> series_error(tss[i])]
  IN IF FirstError(errs) # "none" THEN Raise(FirstError(errs))
     ELSE LET frames == series_frames(tss, flavor)
          IN IF frames = <<>> THEN Return(IF flavor = "iv" THEN EmptyIV ELSE EmptyDV)
             ELSE IF ~concat_ok(frames, flavor) THEN Raise("InvalidIndexError")
             ELSE LET out == sort_index(concat(frames, flavor))
                  IN Return(IF flavor = "iv"
                            THEN rename(rename(out, DISCHARGE_CFS, "discharge_cfs"), STAGE_FT, "stage_ft")
                            ELSE rename(out, DISCHARGE_CFS, "discharge_cfs"))

fetch_iv(resp) ==
  LET r == _nwis_request(resp)
  IN IF r.raised # "none" THEN Raise(r.raised) ELSE parse_envelope(r.json, "iv")

fetch_dv(resp) ==
  LET r == _nwis_request(resp)
  IN IF r.raised # "none" THEN Raise(r.raised) ELSE parse_envelope(r.json, "dv")

\* ------------------------------------------------- the responses considered
\* timestamp texts: midnight UTC of day 0 and of day 1, and 17:00 of day 0 at
\* offset -07:00, which is the same instant as the second; one text that is
\* no timestamp
Stamp(w, o) == [form |-> "iso", wall |-> w, off |-> o]
GoodStamps == {Stamp(0, 0), Stamp(24 * 60, 0), Stamp(17 * 60, -(7 * 60))}
BadStamp == [form |-> "garbage", wall |-> 0, off |-> 0]
GoodValues == {"", None, "10", "20"}
BadValue == "Ice"

Rec(d, v) == [dateTime |-> d, value |-> v]
GoodRecords == {Rec(d, v) : d \in GoodStamps, v \in GoodValues}
\* records that make the loop body raise: unparseable text, a missing key
UnparseableRecords == {Rec(BadStamp, "10"), Rec(Stamp(0, 0), BadValue)}
KeylessRecords == {[value |-> "10"], [dateTime |-> Stamp(0, 0)]}
BadRecords == UnparseableRecords \cup KeylessRecords

Series(code, recs) ==
  [variable |-> [variableCode |-> <<[value |-> code]>>], values |-> <<[value |-> recs]>>]
Envelope(tss) == [value |-> [timeSeries |-> tss]]
Codes == {DISCHARGE_CFS, STAGE_FT}

\* entries lacking an expected key or list element
OneRec == <<Rec(Stamp(0, 0), "10")>>
MalformedSeries ==
  {[values |-> <<[value |-> OneRec]>>],
   [variable |-> [variableCode |-> <<>>], values |-> <<[value |-> OneRec]>>],
   [variable |-> [variableCode |-> <<[network |-> "NWIS"]>>], values |-> <<[value |-> OneRec]>>],
   [variable |-> [variableCode |-> <<[value |-> DISCHARGE_CFS]>>]],
   [variable |-> [variableCode |-> <<[value |-> DISCHARGE_CFS]>>], values |-> <<>>],
   [variable |-> [variableCode |-> <<[value |-> DISCHARGE_CFS]>>], values |-> <<[method |-> "0"]>>]}
\* series holding one bad record, alone or beside a good one
BadRecordSeries ==
  {Series(DISCHARGE_CFS, recs) :
     recs \in UNION {{<<b>>, <<b, Rec(Stamp(24 * 60, 0), "20")>>, <<Rec(Stamp(24 * 60, 0), "20"), b>>}
                     : b \in BadRecords}}
\* a damaged series alone, or beside a well-formed one
Companion == Series(STAGE_FT, OneRec)
DamagedEnvelopes ==
  {Envelope(tss) : tss \in UNION {{<<d>>, <<d, Companion>>, <<Companion, d>>}
                                  : d \in MalformedSeries \cup BadRecordSeries}}

\* envelopes without the value key, or without timeSeries under it
BareEnvelopes == {EmptyObject, [value |-> EmptyObject], [value |-> [queryInfo |-> "q"]]}

\* the answers that are no well-formed envelope: transport failures, damaged
\* and bare envelopes
FailedResponses == {[status |-> st, body |-> EmptyObject] : st \in {"404", "503", "timeout"}}
OddResponses ==
  FailedResponses \cup {[status |-> "200", body |-> js] : js \in DamagedEnvelopes \cup BareEnvelopes}

\* ------------------------------------------------------------------- state
VARIABLES
  resp,       \* the answer the remote service gives to the call under study
  flavor,     \* which client ran on it: "iv", "dv", or "none" before the call
  out,        \* what the call produced: a table or an exception
  sent,       \* HTTP requests issued by the call
  disk,       \* the files of DATA_DIR: path -> [exists, content, mtime]
  now,        \* the wall clock
  pc,         \* where each process stands in load_or_fetch_iv / load_or_fetch_dv
  key,        \* the arguments of each process's call: [fn, site, n]
  df,         \* each process's table: fetched, read from the cache, returned
  hit,        \* whether each process's call found the artifact
  err,        \* the exception that ended each process's call, if any
  requests,   \* remote requests issued so far, per key
  failed,     \* calls ended by an exception so far, per key
  lastWriter, \* the process that wrote each path last
  calls,      \* calls started so far
  tbl,        \* the table handed to an eda.py function
  op,         \* the eda.py function that ran last, "none" before any
  window,     \* the window passed to rolling_anoms, 0 when it did not run
  result      \* what the eda.py function produced: a table or an exception

fetchVars == <<resp, flavor, out, sent>>
cacheVars == <<disk, now, pc, key, df, hit, err, requests, failed, lastWriter, calls>>
edaVars == <<tbl, op, window, result>>
vars == <<resp, flavor, out, sent, disk, now, pc, key, df, hit, err, requests, failed, lastWriter, calls,
          tbl, op, window, result>>

\* ------------------------------------------------------------ cache layer
Procs == {"p1", "p2"}

\* the first site code of the default catalog, as a character sequence
Sites == {<<"0", "9", "0", "9", "5", "5", "0", "0">>}
Days  == {7}
Years == {5}
CallKeys == {[fn |-> "iv", site |-> s, n |-> d] : s \in Sites, d \in Days}
            \cup {[fn |-> "dv", site |-> s, n |-> y] : s \in Sites, y \in Years}
NoKey == [fn |-> "none", site |-> <<>>, n |-> 0]

DigitChars == <<"0", "1", "2", "3", "4", "5", "6", "7", "8", "9">>
\* str(n) of a natural number
RECURSIVE str(_)
str(n) == IF n < 10 THEN <<DigitChars[n + 1]>> ELSE str(n \div 10) \o <<DigitChars[(n % 10) + 1]>>

\* site.replace("/", "-")
replace(text, old, new) == [i \in 1..Len(text) |-> IF text[i] = old THEN new ELSE text[i]]

\* f"iv_{days}d" and f"dv_{years}y"
tag(k) == IF k.fn = "iv" THEN <<"i", "v", "_">> \o str(k.n) \o <<"d">>
          ELSE <<"d", "v", "_">> \o str(k.n) \o <<"y">>

DATA_DIR == <<"d", "a", "t", "a">>
\* os.path.join(DATA_DIR, f"{safe}_{tag}.parquet")
_cache_path(site, t) ==
  DATA_DIR \o <<"/">> \o replace(site, "/", "-") \o <<"_">> \o t \o <<".parquet">>

path(k) == _cache_path(k.site, tag(k))
Paths == {path(k) : k \in CallKeys}

NoArtifact == [index_col |-> "none", tz |-> "none", names |-> <<>>, data |-> <<>>]
NoFile == [exists |-> FALSE, content |-> NoArtifact, mtime |-> 0]
\* bytes that are no parquet file: a truncated or overwritten artifact
Garbage == [index_col |-> "<garbage>", tz |-> "none", names |-> <<>>, data |-> <<>>]

\* Table.from_pandas refuses a frame with a repeated column name
to_parquet_error(t) ==
  IF \E i, j \in 1..Len(t.columns) : i # j /\ t.columns[i] = t.columns[j]
  THEN "ValueError" ELSE "none"

\* the bytes df.to_parquet(path) writes: the index becomes a last column, an
\* unnamed index is called __index_level_0__, the zone goes to the schema
to_parquet(t) ==
  [index_col |-> IF t.name = "none" THEN "__index_level_0__" ELSE t.name,
   tz        |-> t.tz,
   names     |-> t.columns,
   data      |-> [i \in 1..Len(t.rows) |-> Append(t.rows[i].cells, <<t.rows[i].key>>)]]

\* the damage not noticed: the bytes read as an artifact without rows
read_parquet_error_masked(a) == "none"

\* pd.read_parquet(path) raises on bytes that are no parquet file
read_parquet_error(a) == IF a = Garbage THEN "ArrowInvalid" ELSE "none"

\* pd.read_parquet(path): the index column becomes the index again
read_parquet(a) ==
  [tz      |-> a.tz,
   name    |-> IF a.index_col = "__index_level_0__" THEN "none" ELSE a.index_col,
   columns |-> a.names,
   rows    |-> [i \in 1..Len(a.data) |->
                 [key   |-> a.data[i][Len(a.data[i])][1],
                  cells |-> SubSeq(a.data[i], 1, Len(a.data[i]) - 1)]]]

\* exists with a freshness check added: an artifact older than one tick is
\* treated as absent
exists_fresh(p) == disk[p].exists /\ now - disk[p].mtime < 1

\* os.path.exists(path)
exists(p) == disk[p].exists

\* the write lost: the path is left as it was
write_file_lost(old, t) == old

\* an existing artifact kept: the first writer wins
write_file_keep_first(old, t) ==
  IF old.exists THEN old ELSE [exists |-> TRUE, content |-> to_parquet(t), mtime |-> now]

\* an empty table not persisted
write_file_skip_empty(old, t) ==
  IF t.rows = <<>> THEN old ELSE [exists |-> TRUE, content |-> to_parquet(t), mtime |-> now]

\* the file df.to_parquet(path) leaves at path: an existing file is replaced
write_file(old, t) == [exists |-> TRUE, content |-> to_parquet(t), mtime |-> now]

\* the answers the remote service gives to the cache layer's requests
CacheResponses ==
  {[status |-> "503", body |-> EmptyObject],
   [status |-> "200", body |-> Envelope(<<>>)],
   [status |-> "200", body |-> Envelope(<<Series(DISCHARGE_CFS, <<Rec(Stamp(0, 0), "10")>>)>>)],
   [status |-> "200", body |-> Envelope(<<Series(DISCHARGE_CFS, <<Rec(Stamp(24 * 60, 0), "20")>>),
                                         Series(STAGE_FT, <<Rec(Stamp(0, 0), "")>>)>>)],
   [status |-> "200", body |-> Envelope(<<Series(DISCHARGE_CFS, <<Rec(Stamp(0, 0), "10")>>),
                                         Series(DISCHARGE_CFS, <<Rec(Stamp(0, 0), "20")>>)>>)]}

CacheIdle ==
  /\ disk = [p \in Paths |-> NoFile]
  /\ now = 0
  /\ pc = [p \in Procs |-> "idle"]
  /\ key = [p \in Procs |-> NoKey]
  /\ df = [p \in Procs |-> NoTable]
  /\ hit = [p \in Procs |-> FALSE]
  /\ err = [p \in Procs |-> "none"]
  /\ requests = [k \in CallKeys |-> 0]
  /\ failed = [k \in CallKeys |-> 0]
  /\ lastWriter = [p \in Paths |-> "nobody"]
  /\ calls = 0

\* the cache layer left out: a fetch_iv / fetch_dv call touches no file
CacheUnused ==
  /\ disk = [p \in {} |-> NoFile]
  /\ now = 0
  /\ pc = [p \in {} |-> "idle"]
  /\ key = [p \in {} |-> NoKey]
  /\ df = [p \in {} |-> NoTable]
  /\ hit = [p \in {} |-> FALSE]
  /\ err = [p \in {} |-> "none"]
  /\ requests = [k \in {} |-> 0]
  /\ failed = [k \in {} |-> 0]
  /\ lastWriter = [p \in {} |-> "nobody"]
  /\ calls = 0

\* no eda.py function takes part
EdaUnused ==
  /\ tbl = NoTable
  /\ op = "none"
  /\ window = 0
  /\ result = NotRun

FetchIdle ==
  /\ resp = [status |-> "200", body |-> Envelope(<<>>)]
  /\ flavor = "none"
  /\ out = [status |-> "none", error |-> "none", table |-> NoTable]
  /\ sent = 0

\* the module has run: DATA_DIR exists and holds no artifact
Init == CacheIdle /\ FetchIdle /\ EdaUnused

\* a process enters load_or_fetch_iv(site, days) or load_or_fetch_dv(site, years):
\* end, start and path are computed; start and end only reach the request
Call(p, k) ==
  /\ pc[p] = "idle"
  /\ calls < MaxCalls
  /\ calls' = calls + 1
  /\ key' = [key EXCEPT ![p] = k]
  /\ pc' = [pc EXCEPT ![p] = "exists"]
  /\ UNCHANGED <<disk, now, df, hit, err, requests, failed, lastWriter>>
  /\ UNCHANGED fetchVars
  /\ UNCHANGED edaVars

\* if os.path.exists(path):
Exists(p) ==
  /\ pc[p] = "exists"
  /\ hit' = [hit EXCEPT ![p] = exists(path(key[p]))]
  /\ pc' = [pc EXCEPT ![p] = IF exists(path(key[p])) THEN "read" ELSE "fetch"]
  /\ UNCHANGED <<disk, now, key, df, err, requests, failed, lastWriter, calls>>
  /\ UNCHANGED fetchVars
  /\ UNCHANGED edaVars

\* return pd.read_parquet(path)
Read(p) ==
  /\ pc[p] = "read"
  /\ IF read_parquet_error(disk[path(key[p])].content) # "none"
     THEN /\ pc' = [pc EXCEPT ![p] = "failed"]
          /\ err' = [err EXCEPT ![p] = read_parquet_error(disk[path(key[p])].content)]
          /\ failed' = [failed EXCEPT ![key[p]] = @ + 1]
          /\ df' = [df EXCEPT ![p] = NoTable]
     ELSE /\ df' = [df EXCEPT ![p] = read_parquet(disk[path(key[p])].content)]
          /\ pc' = [pc EXCEPT ![p] = "done"]
          /\ UNCHANGED <<err, failed>>
  /\ UNCHANGED <<disk, now, key, hit, requests, lastWriter, calls>>
  /\ UNCHANGED fetchVars
  /\ UNCHANGED edaVars

\* the fetch whose failure is persisted as an artifact without rows
Fetch_caches_failure(p) ==
  /\ pc[p] = "fetch"
  /\ \E r \in CacheResponses :
       LET res == IF key[p].fn = "iv" THEN fetch_iv(r) ELSE fetch_dv(r)
       IN /\ requests' = [requests EXCEPT ![key[p]] = @ + 1]
          /\ IF res.status = "raise"
             THEN /\ pc' = [pc EXCEPT ![p] = "failed"]
                  /\ err' = [err EXCEPT ![p] = res.error]
                  /\ failed' = [failed EXCEPT ![key[p]] = @ + 1]
                  /\ df' = df
                  /\ disk' = [disk EXCEPT ![path(key[p])] =
                                write_file(@, IF key[p].fn = "iv" THEN EmptyIV ELSE EmptyDV)]
             ELSE /\ pc' = [pc EXCEPT ![p] = "write"]
                  /\ df' = [df EXCEPT ![p] = res.table]
                  /\ UNCHANGED <<err, failed, disk>>
  /\ UNCHANGED <<now, key, hit, lastWriter, calls>>
  /\ UNCHANGED fetchVars
  /\ UNCHANGED edaVars

\* df = fetch_iv(site, start, end) or fetch_dv(site, start, end): one request
\* goes out; an exception of the fetch ends the call
Fetch(p) ==
  /\ pc[p] = "fetch"
  /\ \E r \in CacheResponses :
       LET res == IF key[p].fn = "iv" THEN fetch_iv(r) ELSE fetch_dv(r)
       IN /\ requests' = [requests EXCEPT ![key[p]] = @ + 1]
          /\ IF res.status = "raise"
             THEN /\ pc' = [pc EXCEPT ![p] = "failed"]
                  /\ err' = [err EXCEPT ![p] = res.error]
                  /\ failed' = [failed EXCEPT ![key[p]] = @ + 1]
                  /\ df' = df
             ELSE /\ pc' = [pc EXCEPT ![p] = "write"]
                  /\ df' = [df EXCEPT ![p] = res.table]
                  /\ UNCHANGED <<err, failed>>
  /\ UNCHANGED <<disk, now, key, hit, lastWriter, calls>>
  /\ UNCHANGED fetchVars
  /\ UNCHANGED edaVars

\* df.to_parquet(path); return df
Write(p) ==
  /\ pc[p] = "write"
  /\ IF to_parquet_error(df[p]) # "none"
     THEN /\ pc' = [pc EXCEPT ![p] = "failed"]
          /\ err' = [err EXCEPT ![p] = to_parquet_error(df[p])]
          /\ failed' = [failed EXCEPT ![key[p]] = @ + 1]
          /\ df' = [df EXCEPT ![p] = NoTable]
          /\ UNCHANGED <<disk, lastWriter>>
     ELSE /\ disk' = [disk EXCEPT ![path(key[p])] = write_file(@, df[p])]
          /\ lastWriter' = [lastWriter EXCEPT ![path(key[p])] = p]
          /\ pc' = [pc EXCEPT ![p] = "done"]
          /\ UNCHANGED <<df, err, failed>>
  /\ UNCHANGED <<now, key, hit, requests, calls>>
  /\ UNCHANGED fetchVars
  /\ UNCHANGED edaVars

\* the caller takes the result (or the exception); the process is free again
Finish(p) ==
  /\ pc[p] \in {"done", "failed"}
  /\ pc' = [pc EXCEPT ![p] = "idle"]
  /\ key' = [key EXCEPT ![p] = NoKey]
  /\ df' = [df EXCEPT ![p] = NoTable]
  /\ hit' = [hit EXCEPT ![p] = FALSE]
  /\ err' = [err EXCEPT ![p] = "none"]
  /\ UNCHANGED <<disk, now, requests, failed, lastWriter, calls>>
  /\ UNCHANGED fetchVars
  /\ UNCHANGED edaVars

\* wall-clock time passes
Tick ==
  /\ now < MaxClock
  /\ now' = now + 1
  /\ UNCHANGED <<disk, pc, key, df, hit, err, requests, failed, lastWriter, calls>>
  /\ UNCHANGED fetchVars
  /\ UNCHANGED edaVars

\* processes call concurrently
Next ==
  \/ \E p \in Procs, k \in CallKeys : Call(p, k)
  \/ \E p \in Procs : Exists(p)
  \/ \E p \in Procs : Read(p)
  \/ \E p \in Procs : Fetch(p)
  \/ \E p \in Procs : Write(p)
  \/ \E p \in Procs : Finish(p)
  \/ Tick

Spec == Init /\ [][Next]_vars

\* calls come one after the other: a call starts when no other is under way
AllIdle == \A p \in Procs : pc[p] = "idle"
NextSeq ==
  \/ \E p \in Procs, k \in CallKeys : AllIdle /\ Call(p, k)
  \/ \E p \in Procs : Exists(p)
  \/ \E p \in Procs : Read(p)
  \/ \E p \in Procs : Fetch(p)
  \/ \E p \in Procs : Write(p)
  \/ \E p \in Procs : Finish(p)
  \/ Tick

SpecSeq == Init /\ [][NextSeq]_vars

\* ------------------------------------------------- keys of arbitrary sites
\* site codes with "/" and with "-", and tags of one and of two digits
PathSites == {<<"1", "/", "2">>, <<"1", "-", "2">>, <<"1", "2">>}
PathDays  == {1, 11}
PathYears == {1}
PathKeys == {[fn |-> "iv", site |-> s, n |-> d] : s \in PathSites, d \in PathDays}
            \cup {[fn |-> "dv", site |-> s, n |-> y] : s \in PathSites, y \in PathYears}
PathProcs == {"p1"}

\* DATA_DIR holds no artifact, for any of these keys
InitPath ==
  /\ disk = [q \in {path(k) : k \in PathKeys} |-> NoFile]
  /\ now = 0
  /\ pc = [p \in Procs |-> "idle"]
  /\ key = [p \in Procs |-> NoKey]
  /\ df = [p \in Procs |-> NoTable]
  /\ hit = [p \in Procs |-> FALSE]
  /\ err = [p \in Procs |-> "none"]
  /\ requests = [k \in PathKeys |-> 0]
  /\ failed = [k \in PathKeys |-> 0]
  /\ lastWriter = [q \in {path(k) : k \in PathKeys} |-> "nobody"]
  /\ calls = 0
  /\ FetchIdle
  /\ EdaUnused

\* one caller, one call after the other, on any of these keys
NextPath ==
  \/ \E p \in PathProcs, k \in PathKeys : AllIdle /\ Call(p, k)
  \/ \E p \in PathProcs : Exists(p)
  \/ \E p \in PathProcs : Read(p)
  \/ \E p \in PathProcs : Fetch(p)
  \/ \E p \in PathProcs : Write(p)
  \/ \E p \in PathProcs : Finish(p)

SpecPath == InitPath /\ [][NextPath]_vars

\* ------------------------------------------------------ cache I/O failures
\* something outside the program damages an artifact: its bytes are no
\* parquet file any more
Damage(q) ==
  /\ disk[q].exists
  /\ disk[q].content # Garbage
  /\ disk' = [disk EXCEPT ![q].content = Garbage]
  /\ UNCHANGED <<now, pc, key, df, hit, err, requests, failed, lastWriter, calls>>
  /\ UNCHANGED fetchVars
  /\ UNCHANGED edaVars

\* df.to_parquet(path) raises OSError (DATA_DIR not writable, device full):
\* the path is left as it was, or holds the part written before the failure
WriteFails(p) ==
  /\ pc[p] = "write"
  /\ pc' = [pc EXCEPT ![p] = "failed"]
  /\ err' = [err EXCEPT ![p] = "OSError"]
  /\ failed' = [failed EXCEPT ![key[p]] = @ + 1]
  /\ df' = [df EXCEPT ![p] = NoTable]
  /\ \/ UNCHANGED <<disk, lastWriter>>
     \/ /\ disk' = [disk EXCEPT ![path(key[p])] = [exists |-> TRUE, content |-> Garbage, mtime |-> now]]
        /\ lastWriter' = [lastWriter EXCEPT ![path(key[p])] = p]
  /\ UNCHANGED <<now, key, hit, requests, calls>>
  /\ UNCHANGED fetchVars
  /\ UNCHANGED edaVars

\* calls one after the other, on a disk that can fail
NextIO ==
  \/ \E p \in Procs, k \in CallKeys : AllIdle /\ Call(p, k)
  \/ \E p \in Procs : Exists(p)
  \/ \E p \in Procs : Read(p)
  \/ \E p \in Procs : Fetch(p)
  \/ \E p \in Procs : Write(p)
  \/ \E p \in Procs : WriteFails(p)
  \/ \E p \in Procs : Finish(p)
  \/ \E q \in Paths : Damage(q)
  \/ Tick

SpecIO == Init /\ [][NextIO]_vars

RECURSIVE SeqSum(_)
SeqSum(s) == IF s = <<>> THEN 0 ELSE Head(s) + SeqSum(Tail(s))

\* records held by a well-formed envelope
NumRecords(js) ==
  SeqSum([i \in 1..Len(js.value.timeSeries) |-> Len(js.value.timeSeries[i].values[1].value)])

\* a well-formed envelope: every key present, every record parseable
WellFormed(r) ==
  /\ r.status = "200"
  /\ HasKey(r.body, "value") /\ HasKey(r.body.value, "timeSeries")
  /\ \A i \in 1..Len(r.body.value.timeSeries) : series_error(r.body.value.timeSeries[i]) = "none"

InitFetch ==
  /\ resp \in OddResponses \cup {[status |-> "200", body |-> Envelope(<<>>)]}
  /\ flavor = "none"
  /\ out = NotRun
  /\ sent = 0
  /\ CacheUnused
  /\ EdaUnused

\* the remote service opens a further time series in its answer
RemoteAddSeries ==
  /\ flavor = "none"
  /\ WellFormed(resp)
  /\ Len(resp.body.value.timeSeries) < MaxSeries
  /\ \E c \in Codes :
       resp' = [resp EXCEPT !.body.value.timeSeries = Append(@, Series(c, <<>>))]
  /\ UNCHANGED <<flavor, out, sent>>
  /\ UNCHANGED cacheVars
  /\ UNCHANGED edaVars

\* the remote service adds a record to the series it opened last
RemoteAddRecord ==
  /\ flavor = "none"
  /\ WellFormed(resp)
  /\ Len(resp.body.value.timeSeries) > 0
  /\ NumRecords(resp.body) < MaxRecords
  /\ \E r \in GoodRecords :
       LET n == Len(resp.body.value.timeSeries)
       IN resp' = [resp EXCEPT !.body.value.timeSeries[n].values[1].value = Append(@, r)]
  /\ UNCHANGED <<flavor, out, sent>>
  /\ UNCHANGED cacheVars
  /\ UNCHANGED edaVars

\* one call of fetch_iv: client.get once, then parse
FetchIV ==
  /\ flavor = "none"
  /\ flavor' = "iv"
  /\ sent' = sent + 1
  /\ out' = fetch_iv(resp)
  /\ UNCHANGED resp
  /\ UNCHANGED cacheVars
  /\ UNCHANGED edaVars

\* one call of fetch_dv
FetchDV ==
  /\ flavor = "none"
  /\ flavor' = "dv"
  /\ sent' = sent + 1
  /\ out' = fetch_dv(resp)
  /\ UNCHANGED resp
  /\ UNCHANGED cacheVars
  /\ UNCHANGED edaVars

NextFetch == RemoteAddSeries \/ RemoteAddRecord \/ FetchIV \/ FetchDV

SpecFetch == InitFetch /\ [][NextFetch]_vars

\* ================================================================== eda.py
\* A table handed to eda.py has a DatetimeIndex and, per column, a dtype kind:
\* [tz, name, columns, kinds, rows]. The key of a row of a zone-aware table is
\* its instant in minutes of UTC since 00:00 UTC of day 0; the key of a row of
\* a naive table is its wall clock in minutes. A float cell is <<n>> for the
\* whole number n, <<n, d>> for the fraction n/d in lowest terms, NaN when
\* missing.
DENVER_TZ == "America/Denver"
DAY == 24 * 60

RECURSIVE GCD(_, _)
GCD(a, b) == IF b = 0 THEN a ELSE GCD(b, a % b)
\* the float n/d, d > 0, n >= 0
Rat(n, d) == LET g == GCD(n, d) IN IF d \div g = 1 THEN <<n \div g>> ELSE <<n \div g, d \div g>>

\* numerator and denominator of a non-missing float cell
Numer(c) == c[1]
Denom(c) == IF Len(c) = 1 THEN 1 ELSE c[2]

Range(s) == {s[i] : i \in 1..Len(s)}
MinOf(S) == CHOOSE x \in S : \A y \in S : x <= y

\* UTC offset of a zone at an instant; day 0 is a day on which Denver leaves
\* standard time at 02:00 local, 09:00 UTC
utcoffset(zone, instant) ==
  IF zone = DENVER_TZ THEN (IF instant < 9 * 60 THEN -(7 * 60) ELSE -(6 * 60)) ELSE 0

\* df.tz_convert(zone) of a zone-aware table: same instants, another zone
tz_convert(frame, zone) == [frame EXCEPT !.tz = zone]

\* df.tz_localize(None) of a zone-aware table: the wall clock of its zone,
\* without zone
tz_localize_None(frame) ==
  [frame EXCEPT !.tz = "naive",
             !.rows = [i \in 1..Len(frame.rows) |->
                         [frame.rows[i] EXCEPT !.key = @ + utcoffset(frame.tz, @)]]]

\* the conversion without the final tz_localize(None)
to_local_keep_zone(frame) == IF frame.tz = "naive" THEN frame ELSE tz_convert(frame, DENVER_TZ)

to_local(frame) == IF frame.tz = "naive" THEN frame ELSE tz_localize_None(tz_convert(frame, DENVER_TZ))

\* df.empty: no row or no column
empty(frame) == Len(frame.rows) = 0 \/ Len(frame.columns) = 0

\* the keys of the agg dict, in its order
agg == <<"discharge_cfs", "stage_ft">>
avail(base) == LET present(k) == k \in Range(base.columns) IN SelectSeq(agg, present)

\* "_".join(filter(None, (k, how)))
join(k, how) ==
  CASE k = "discharge_cfs" /\ how = "mean" -> "discharge_cfs_mean"
    [] k = "discharge_cfs" /\ how = "max"  -> "discharge_cfs_max"
    [] k = "discharge_cfs" /\ how = "min"  -> "discharge_cfs_min"
    [] k = "stage_ft" /\ how = "mean" -> "stage_ft_mean"
    [] k = "stage_ft" /\ how = "max"  -> "stage_ft_max"
    [] k = "stage_ft" /\ how = "min"  -> "stage_ft_min"

\* the non-missing values of column k in the one-day bin that starts at day d
bin(base, k, d) ==
  LET c == CHOOSE c \in 1..Len(base.columns) : base.columns[c] = k
      inbin(r) == r.key \div DAY = d /\ r.cells[c] # NaN
      rs == SelectSeq(base.rows, inbin)
  IN [i \in 1..Len(rs) |-> rs[i].cells[c][1]]

\* the mean taken as the middle of the range
mean_midrange(xs) == IF xs = <<>> THEN NaN ELSE Rat(MaxOf(Range(xs)) + MinOf(Range(xs)), 2)

\* the aggregates of one bin; each is missing for a bin without a value
mean(xs) == IF xs = <<>> THEN NaN ELSE Rat(SeqSum(xs), Len(xs))
max(xs)  == IF xs = <<>> THEN NaN ELSE Num(MaxOf(Range(xs)))
min(xs)  == IF xs = <<>> THEN NaN ELSE Num(MinOf(Range(xs)))

\* the days grouped instead of resampled: a row only for a day with a sample
resample_agg_groupby(base, ks) ==
  LET days == SortedKeys({base.rows[i].key \div DAY : i \in 1..Len(base.rows)})
  IN [tz      |-> "naive",
      name    |-> "date",
      columns |-> Flatten([i \in 1..Len(ks) |-> <<join(ks[i], "mean"), join(ks[i], "max"), join(ks[i], "min")>>]),
      kinds   |-> Flatten([i \in 1..Len(ks) |-> <<"f", "f", "f">>]),
      rows    |-> [n \in 1..Len(days) |->
                    [key   |-> days[n] * DAY,
                     cells |-> Flatten([i \in 1..Len(ks) |->
                                 LET xs == bin(base, ks[i], days[n])
                                 IN <<mean(xs), max(xs), min(xs)>>])]]]

\* base.resample("1D").agg(avail), columns flattened, index named "date": one
\* row per day from the day of the first row to the day of the last
resample_agg(base, ks) ==
  LET days  == {base.rows[i].key \div DAY : i \in 1..Len(base.rows)}
      first == MinOf(days)
      last  == MaxOf(days)
  IN [tz      |-> "naive",
      name    |-> "date",
      columns |-> Flatten([i \in 1..Len(ks) |-> <<join(ks[i], "mean"), join(ks[i], "max"), join(ks[i], "min")>>]),
      kinds   |-> Flatten([i \in 1..Len(ks) |-> <<"f", "f", "f">>]),
      rows    |-> [n \in 1..(last - first + 1) |->
                    [key   |-> (first + n - 1) * DAY,
                     cells |-> Flatten([i \in 1..Len(ks) |->
                                 LET xs == bin(base, ks[i], first + n - 1)
                                 IN <<mean(xs), max(xs), min(xs)>>])]]]

\* daily_features with the zone dropped before any conversion to UTC: the
\* days are those of the wall clock of the table's own zone
daily_features_local_days(df_iv) ==
  IF empty(df_iv) THEN Return(df_iv)
  ELSE LET base == IF df_iv.tz # "naive" THEN tz_localize_None(df_iv) ELSE df_iv
       IN IF avail(base) = <<>> THEN Raise("ValueError")
          ELSE Return(resample_agg(base, avail(base)))

\* daily_features without the "if df_iv.empty" guard
daily_features_unguarded(df_iv) ==
  LET base == IF df_iv.tz # "naive" THEN tz_localize_None(tz_convert(df_iv, "UTC")) ELSE df_iv
  IN IF avail(base) = <<>> THEN Raise("ValueError")
     ELSE IF Len(base.rows) = 0
          THEN Return([tz |-> "naive", name |-> "date", columns |-> <<>>, kinds |-> <<>>, rows |-> <<>>])
          ELSE Return(resample_agg(base, avail(base)))

\* an empty agg dict leaves nothing to concatenate: agg raises ValueError
daily_features(df_iv) ==
  IF empty(df_iv) THEN Return(df_iv)
  ELSE LET base == IF df_iv.tz # "naive" THEN tz_localize_None(tz_convert(df_iv, "UTC")) ELSE df_iv
       IN IF avail(base) = <<>> THEN Raise("ValueError")
          ELSE Return(resample_agg(base, avail(base)))

\* ------------------------------------------- instantaneous tables for eda.py
\* instants before and after Denver's change of offset, on day 0, 1 and 2
SampleInstants == {1 * 60, 10 * 60, 25 * 60, 50 * 60}
SampleValues == {NaN, Num(10), Num(20)}
Zones == {"UTC", DENVER_TZ, "naive"}
SampleColumns ==
  {<<>>, <<"discharge_cfs">>, <<"stage_ft">>, <<"other">>,
   <<"stage_ft", "discharge_cfs">>, <<"discharge_cfs", "other">>}
\* the tables without rows
SampleSchemas ==
  {[tz |-> z, name |-> "time", columns |-> cs, kinds |-> [i \in 1..Len(cs) |-> "f"], rows |-> <<>>]
     : z \in Zones, cs \in SampleColumns}

\* the table of test_daily_features_and_anoms as its comment describes it:
\* pd.date_range("2025-01-01 00:00", periods=96, freq="15min", tz="UTC") with
\* discharge_cfs cycling 1000 .. 1009
periods == 96
TestTable ==
  [tz |-> "UTC", name |-> "none", columns |-> <<"discharge_cfs">>, kinds |-> <<"f">>,
   rows |-> [i \in 1..periods |-> [key |-> (i - 1) * 15, cells |-> <<Num(1000 + ((i - 1) % 10))>>]]]

InitFeat ==
  /\ tbl \in SampleSchemas \cup {TestTable}
  /\ op = "none"
  /\ window = 0
  /\ result = NotRun
  /\ FetchIdle
  /\ CacheUnused

\* the table gains a sample, at or after its last instant: fetch_iv leaves
\* its tables sorted by index
SampleAppend ==
  /\ op = "none"
  /\ Len(tbl.rows) < MaxSamples
  /\ \E k \in SampleInstants : \E cs \in [1..Len(tbl.columns) -> SampleValues] :
       /\ Len(tbl.rows) > 0 => tbl.rows[Len(tbl.rows)].key <= k
       /\ tbl' = [tbl EXCEPT !.rows = Append(@, [key |-> k, cells |-> cs])]
  /\ UNCHANGED <<op, window, result>>
  /\ UNCHANGED fetchVars
  /\ UNCHANGED cacheVars

\* to_local(tbl)
ToLocal ==
  /\ op = "none"
  /\ op' = "to_local"
  /\ result' = Return(to_local(tbl))
  /\ UNCHANGED <<tbl, window>>
  /\ UNCHANGED fetchVars
  /\ UNCHANGED cacheVars

\* to_local applied to the table the first to_local returned
ToLocalAgain ==
  /\ op = "to_local"
  /\ op' = "to_local_again"
  /\ tbl' = result.table
  /\ result' = Return(to_local(result.table))
  /\ UNCHANGED window
  /\ UNCHANGED fetchVars
  /\ UNCHANGED cacheVars

\* daily_features(tbl)
DailyFeatures ==
  /\ op = "none"
  /\ op' = "daily_features"
  /\ result' = daily_features(tbl)
  /\ UNCHANGED <<tbl, window>>
  /\ UNCHANGED fetchVars
  /\ UNCHANGED cacheVars

NextFeat == SampleAppend \/ ToLocal \/ ToLocalAgain \/ DailyFeatures

SpecFeat == InitFeat /\ [][NextFeat]_vars

\* ------------------------------------------------------------ rolling_anoms
\* A z-score cell is NaN when missing, <<s, n, d>> for the finite value of
\* sign s whose square is n/d in lowest terms, <<s, 1, 0>> for the infinity
\* of sign s. The columns of a daily table hold whole numbers.
min_periods == 7
default_window == 30

sign(x) == IF x > 0 THEN 1 ELSE IF x < 0 THEN -1 ELSE 0
Inf(s) == <<s, 1, 0>>
Z(s, n, d) == LET g == GCD(n, d) IN <<s, n \div g, d \div g>>

\* f"{col}_z"
z_name(col) ==
  CASE col = "discharge_cfs_mean" -> "discharge_cfs_mean_z"
    [] col = "n_samples" -> "n_samples_z"
    [] col = "site" -> "site_z"

\* the window taken one row short
observations_short(daily, c, i, w) ==
  LET from == IF i - w + 2 > 1 THEN i - w + 2 ELSE 1
      valued(r) == r.cells[c] # NaN
      rs == SelectSeq(SubSeq(daily.rows, from, i), valued)
  IN [j \in 1..Len(rs) |-> rs[j].cells[c][1]]

\* the non-missing values of column c in the window of w rows ending at row i
observations(daily, c, i, w) ==
  LET from == IF i - w + 1 > 1 THEN i - w + 1 ELSE 1
      valued(r) == r.cells[c] # NaN
      rs == SelectSeq(SubSeq(daily.rows, from, i), valued)
  IN [j \in 1..Len(rs) |-> rs[j].cells[c][1]]

\* out[col].rolling(window, min_periods=7).mean() at one row
rolling_mean(xs) == IF Len(xs) < min_periods THEN NaN ELSE Rat(SeqSum(xs), Len(xs))

\* the square of out[col].rolling(window, min_periods=7).std() at one row:
\* the sample variance
rolling_var(xs) ==
  IF Len(xs) < min_periods THEN NaN
  ELSE LET n == Len(xs)
           S == SeqSum(xs)
           Q == SeqSum([j \in 1..n |-> xs[j] * xs[j]])
       IN Rat(n * Q - S * S, n * (n - 1))

\* the score of a row without enough history given as zero
z_zero_fill(x, mu, var) ==
  IF x = NaN \/ mu = NaN \/ var = NaN THEN Z(0, 0, 1)
  ELSE LET D == x[1] * Denom(mu) - Numer(mu)
       IN IF Numer(var) = 0 THEN (IF D = 0 THEN NaN ELSE Inf(sign(D)))
          ELSE Z(sign(D), D * D * Denom(var), Denom(mu) * Denom(mu) * Numer(var))

\* the score with the spread floored at one instead of divided by as it is
z_floor_sigma(x, mu, var) ==
  IF x = NaN \/ mu = NaN \/ var = NaN THEN NaN
  ELSE LET D == x[1] * Denom(mu) - Numer(mu)
       IN IF Numer(var) = 0 THEN Z(sign(D), D * D, Denom(mu) * Denom(mu))
          ELSE Z(sign(D), D * D * Denom(var), Denom(mu) * Denom(mu) * Numer(var))

\* (out[col] - mu) / sigma at one row, in float arithmetic: 0/0 is NaN, a
\* non-zero value over 0 is an infinity
z(x, mu, var) ==
  IF x = NaN \/ mu = NaN \/ var = NaN THEN NaN
  ELSE LET D == x[1] * Denom(mu) - Numer(mu)
       IN IF Numer(var) = 0 THEN (IF D = 0 THEN NaN ELSE Inf(sign(D)))
          ELSE Z(sign(D), D * D * Denom(var), Denom(mu) * Denom(mu) * Numer(var))

\* out[col].dtype.kind in "fc"
scored(kind) == kind \in {"f", "c"}

\* the columns the loop scores, by position
scored_columns(daily) == SelectSeq([c \in 1..Len(daily.columns) |-> c], LAMBDA c : scored(daily.kinds[c]))

\* rolling(window, min_periods=7) raises ValueError when min_periods exceeds
\* the window
rolling_ok(w) == w >= min_periods

rolling_anoms(daily, w) ==
  IF empty(daily) THEN Return(daily)
  ELSE LET cols == scored_columns(daily)
       IN IF cols # <<>> /\ ~rolling_ok(w) THEN Raise("ValueError")
          ELSE Return(
            [daily EXCEPT
               !.columns = @ \o [n \in 1..Len(cols) |-> z_name(daily.columns[cols[n]])],
               !.kinds   = @ \o [n \in 1..Len(cols) |-> "f"],
               !.rows    = [i \in 1..Len(daily.rows) |->
                             [daily.rows[i] EXCEPT
                                !.cells = @ \o [n \in 1..Len(cols) |->
                                  LET xs == observations(daily, cols[n], i, w)
                                  IN z(daily.rows[i].cells[cols[n]], rolling_mean(xs), rolling_var(xs))]]]])

\* ------------------------------------------------ daily tables for eda.py
DayValues == {NaN, Num(10), Num(20)}
Windows == {5, min_periods, default_window}
\* a float column alone, or between an integer and an object column
DailyColumns ==
  {[columns |-> <<"discharge_cfs_mean">>, kinds |-> <<"f">>],
   [columns |-> <<"n_samples", "discharge_cfs_mean", "site">>, kinds |-> <<"i", "f", "O">>]}
DailySchemas ==
  {[tz |-> "naive", name |-> "date", columns |-> s.columns, kinds |-> s.kinds, rows |-> <<>>]
     : s \in DailyColumns}
\* the cell a new row holds in a column of the given kind
DayCell(kind, v) == IF kind = "f" THEN v ELSE IF kind = "i" THEN Num(96) ELSE <<"09095500">>

InitAnom ==
  /\ tbl \in DailySchemas
  /\ op = "none"
  /\ window = 0
  /\ result = NotRun
  /\ FetchIdle
  /\ CacheUnused

\* the daily table gains the row of the next day
DayAppend ==
  /\ op = "none"
  /\ Len(tbl.rows) < MaxDays
  /\ \E v \in DayValues :
       tbl' = [tbl EXCEPT !.rows = Append(@, [key   |-> Len(tbl.rows) * DAY,
                                               cells |-> [c \in 1..Len(tbl.kinds) |-> DayCell(tbl.kinds[c], v)]])]
  /\ UNCHANGED <<op, window, result>>
  /\ UNCHANGED fetchVars
  /\ UNCHANGED cacheVars

\* rolling_anoms(tbl, w)
RollingAnoms ==
  /\ op = "none"
  /\ \E w \in Windows :
       /\ window' = w
       /\ result' = rolling_anoms(tbl, w)
  /\ op' = "rolling_anoms"
  /\ UNCHANGED tbl
  /\ UNCHANGED fetchVars
  /\ UNCHANGED cacheVars

NextAnom == DayAppend \/ RollingAnoms

SpecAnom == InitAnom /\ [][NextAnom]_vars

\* ================================================================== claims
FileOf(p) == disk[path(key[p])]
IsEmpty(t) == t.rows = <<>>

\* C1: with calls made one after the other on an empty cache, each key sees
\* exactly one successful remote request: the call that misses fetches and
\* persists what it fetched, every later call reads the artifact back and
\* issues no request, and the artifact, once written, never changes.
C1_State ==
  /\ \A k \in CallKeys :
       requests[k] - failed[k] =
         IF disk[path(k)].exists \/ (\E p \in Procs : key[p] = k /\ pc[p] = "write") THEN 1 ELSE 0
  /\ \A p \in Procs :
       pc[p] = "done" =>
         /\ FileOf(p).exists
         /\ hit[p] => df[p] = read_parquet(FileOf(p).content)
         /\ ~hit[p] => FileOf(p).content = to_parquet(df[p])
C1_OneFetchPerKey ==
  /\ []C1_State
  /\ [][\A f \in Paths : disk[f].exists => disk'[f] = disk[f]]_vars
C1_Witness ==
  \E p \in Procs :
    /\ pc[p] = "done" /\ hit[p] /\ ~IsEmpty(df[p])
    /\ requests[key[p]] = 1 /\ calls = MaxCalls

\* C2: a call that finds the artifact returns its content, issues no remote
\* request and leaves the artifact alone, however old the artifact is.
C2_HitReturnsArtifact ==
  [][\A p \in Procs :
       /\ (pc[p] = "exists" /\ FileOf(p).exists /\ pc'[p] # "exists") =>
            (pc'[p] = "read" /\ hit'[p] /\ requests' = requests /\ disk' = disk)
       /\ (pc[p] = "read" /\ pc'[p] # "read") =>
            (/\ pc'[p] = "done"
             /\ df'[p] = read_parquet(FileOf(p).content)
             /\ requests' = requests /\ disk' = disk)]_vars
C2_Witness ==
  \E p \in Procs :
    /\ pc[p] = "done" /\ hit[p]
    /\ now - FileOf(p).mtime >= 2
    /\ df[p] = read_parquet(FileOf(p).content)

\* C3: when two processes both miss on the same key, both fetch and both
\* write; the artifact left is the table of the process that wrote last.
C3_LastWriterWins ==
  \A p \in Procs :
    (pc[p] = "done" /\ ~hit[p] /\ lastWriter[path(key[p])] = p) =>
      (FileOf(p).exists /\ FileOf(p).content = to_parquet(df[p]))
C3_Witness ==
  \E p, q \in Procs :
    /\ p # q /\ key[p] = key[q] /\ key[p].fn = "iv"
    /\ pc[p] = "done" /\ pc[q] = "done" /\ ~hit[p] /\ ~hit[q]
    /\ requests[key[p]] = 2 /\ failed[key[p]] = 0
    /\ df[p] # df[q]
    /\ lastWriter[path(key[q])] = q
    /\ FileOf(q).content = to_parquet(df[q])
    /\ FileOf(q).content # to_parquet(df[p])

\* C4: a fetch_iv / fetch_dv call answered with a non-success status, or not
\* answered in time, ends in an exception: no table comes back and the call
\* has issued exactly one request.
C4_TransportFailureSurfaces ==
  (flavor # "none" /\ resp.status # "200") =>
    /\ out.status = "raise"
    /\ out.error = (IF resp.status = "timeout" THEN "TimeoutException" ELSE "HTTPStatusError")
    /\ out.table = NoTable
    /\ sent = 1
C4_Witness ==
  /\ flavor = "iv" /\ resp.status = "503"
  /\ out.status = "raise" /\ out.error = "HTTPStatusError" /\ sent = 1

\* C5: a miss whose fetch gives an empty table still persists an artifact;
\* while that artifact exists no call on the key reaches the fetch, and a
\* call that finds it returns an empty table.
C5_EmptyResultCached ==
  \A p \in Procs :
    /\ (pc[p] = "done" /\ ~hit[p] /\ IsEmpty(df[p])) =>
         (FileOf(p).exists /\ IsEmpty(read_parquet(FileOf(p).content)))
    /\ (pc[p] \in {"fetch", "write"}) => ~FileOf(p).exists
    /\ (pc[p] = "done" /\ hit[p] /\ IsEmpty(read_parquet(FileOf(p).content))) =>
         (IsEmpty(df[p]) /\ df[p].columns = <<>> /\ requests[key[p]] - failed[key[p]] = 1)
C5_Witness ==
  \E p \in Procs :
    /\ pc[p] = "done" /\ hit[p] /\ key[p].fn = "iv"
    /\ df[p] = EmptyIV /\ requests[key[p]] = 1

\* -------------------------------------------- reading a response envelope
SeriesOf(r) == timeSeries(r.body)
RecsOf(ts) == ts.values[1].value
CodeOf(ts) == ts.variable.variableCode[1].value
Instants(ts) == {to_utc(RecsOf(ts)[i].dateTime) : i \in 1..Len(RecsOf(ts))}
DistinctInstants(ts) == Cardinality(Instants(ts)) = Len(RecsOf(ts))
\* the reading series ts reports at instant t
ReadingAt(ts, t) ==
  LET i == CHOOSE i \in 1..Len(RecsOf(ts)) : to_utc(RecsOf(ts)[i].dateTime) = t
  IN IF RecsOf(ts)[i].value \in {"", None} THEN NaN ELSE Num(float(RecsOf(ts)[i].value))
FriendlyIV(code) ==
  IF code = "00060" THEN "discharge_cfs" ELSE IF code = "00065" THEN "stage_ft" ELSE code
Ascending(t) == \A j \in 1..(Len(t.rows) - 1) : t.rows[j].key < t.rows[j + 1].key

\* a fetch_iv call on a well-formed envelope of two series, one per quantity
\* code, each with records and without a repeated instant
TwoSeriesIV ==
  /\ flavor = "iv" /\ WellFormed(resp)
  /\ Len(SeriesOf(resp)) = 2
  /\ {CodeOf(SeriesOf(resp)[1]), CodeOf(SeriesOf(resp)[2])} = {"00060", "00065"}
  /\ \A i \in 1..2 : RecsOf(SeriesOf(resp)[i]) # <<>> /\ DistinctInstants(SeriesOf(resp)[i])

\* C6: fetch_iv joins two single-quantity series into a table with one row
\* per distinct UTC instant of either series, in ascending order; at an
\* instant only one series reports, the other quantity's cell is missing.
C6_OuterJoinOnInstant ==
  TwoSeriesIV =>
    /\ out.status = "ok"
    /\ LET T  == out.table
           s1 == SeriesOf(resp)[1]
           s2 == SeriesOf(resp)[2]
           all == Instants(s1) \cup Instants(s2)
       IN /\ Len(T.rows) = Cardinality(all)
          /\ {T.rows[j].key : j \in 1..Len(T.rows)} = all
          /\ Ascending(T)
          /\ T.columns = <<FriendlyIV(CodeOf(s1)), FriendlyIV(CodeOf(s2))>>
          /\ \A j \in 1..Len(T.rows) : \A i \in 1..2 :
               T.rows[j].cells[i] =
                 IF T.rows[j].key \in Instants(SeriesOf(resp)[i])
                 THEN ReadingAt(SeriesOf(resp)[i], T.rows[j].key)
                 ELSE NaN
C6_Witness ==
  /\ TwoSeriesIV /\ out.status = "ok"
  /\ Instants(SeriesOf(resp)[1]) = {24 * 60} /\ Instants(SeriesOf(resp)[2]) = {0}
  /\ Len(out.table.rows) = 2
  /\ out.table.rows[1] = [key |-> 0, cells |-> <<NaN, Num(10)>>]
  /\ out.table.rows[2] = [key |-> 24 * 60, cells |-> <<Num(20), NaN>>]

\* C7: the index of every table fetch_iv / fetch_dv returns is strictly
\* ascending, without a repeated entry, also when one series holds the same
\* timestamp (or date) in two records.
C7_IndexStrictlyAscending ==
  (flavor # "none" /\ out.status = "ok") => Ascending(out.table)

\* C8: an envelope without time-series entries (timeSeries empty, or the
\* value / timeSeries key absent), or whose entries all have an empty value
\* list, gives an empty table and no exception; an entry with an empty value
\* list adds no column and the other entries keep theirs.
NoSeriesKey == ~HasKey(resp.body, "value") \/ ~HasKey(resp.body.value, "timeSeries")
C8_EmptySeriesGiveEmptyTable ==
  (flavor # "none" /\ resp.status = "200" /\ (NoSeriesKey \/ WellFormed(resp))) =>
    LET tss  == SeriesOf(resp)
        full == {i \in 1..Len(tss) : RecsOf(tss[i]) # <<>>}
    IN /\ full = {} => out = Return(IF flavor = "iv" THEN EmptyIV ELSE EmptyDV)
       /\ out.status = "ok" => Len(out.table.columns) = Cardinality(full)
       /\ (out.status = "ok" /\ Cardinality(full) = 1 /\ flavor = "iv") =>
            out.table.columns = <<FriendlyIV(CodeOf(tss[CHOOSE i \in full : TRUE]))>>
C8_Witness ==
  /\ flavor = "dv" /\ WellFormed(resp) /\ Len(SeriesOf(resp)) = 2
  /\ RecsOf(SeriesOf(resp)[1]) = <<>> /\ Len(RecsOf(SeriesOf(resp)[2])) = 2
  /\ CodeOf(SeriesOf(resp)[1]) = "00065"
  /\ out.status = "ok" /\ out.table.columns = <<"discharge_cfs">> /\ Len(out.table.rows) = 2

\* C9: an entry lacking variable, variableCode[0], its value, values,
\* values[0] or its value list does not make fetch_iv / fetch_dv raise: the
\* entry counts as empty and the well-formed entries are still returned.
LacksKey(ts) ==
  \/ ts \in MalformedSeries
  \/ ts \in BadRecordSeries /\ \E j \in 1..Len(ts.values[1].value) : ts.values[1].value[j] \in KeylessRecords
C9_MalformedEntryDegrades ==
  (/\ flavor # "none" /\ resp.status = "200"
   /\ \E i \in 1..Len(SeriesOf(resp)) : LacksKey(SeriesOf(resp)[i])) =>
    /\ out.status = "ok"
    /\ Len(out.table.columns) =
         Cardinality({i \in 1..Len(SeriesOf(resp)) : ~LacksKey(SeriesOf(resp)[i])})

\* C10: a record with an unparseable dateTime or an unparseable non-empty
\* numeric literal does not make fetch_iv / fetch_dv fail: the call returns
\* a table that holds every other record of the batch.
HasUnparseable(ts) ==
  ts \in BadRecordSeries /\ \E j \in 1..Len(ts.values[1].value) : ts.values[1].value[j] \in UnparseableRecords
C10_BadRecordTolerated ==
  (/\ flavor # "none" /\ resp.status = "200"
   /\ \E i \in 1..Len(SeriesOf(resp)) : HasUnparseable(SeriesOf(resp)[i])) =>
    /\ out.status = "ok"
    /\ \A i \in 1..Len(SeriesOf(resp)) :
         \A j \in 1..Len(RecsOf(SeriesOf(resp)[i])) :
           LET v == RecsOf(SeriesOf(resp)[i])[j]
           IN v \in GoodRecords =>
                \E r \in 1..Len(out.table.rows) :
                  out.table.rows[r].key = index_key(v, flavor)

\* C11: in every table fetch_iv / fetch_dv returns, each record of the batch
\* has a row at its timestamp; the cell of its quantity is missing when the
\* record's value is "" or null (never 0, never a string) and is the numeric
\* value of the literal otherwise.
EmptyValue(v) == v.value = "" \/ v.value = None
\* position of the column that series i of tss contributes
ColumnOf(tss, i) == Cardinality({k \in 1..i : RecsOf(tss[k]) # <<>>})
C11_EmptyValueIsMissing ==
  (flavor # "none" /\ WellFormed(resp) /\ out.status = "ok") =>
    \A i \in 1..Len(SeriesOf(resp)) :
      \A j \in 1..Len(RecsOf(SeriesOf(resp)[i])) :
        LET v == RecsOf(SeriesOf(resp)[i])[j]
            c == ColumnOf(SeriesOf(resp), i)
        IN \E r \in 1..Len(out.table.rows) :
             /\ out.table.rows[r].key = index_key(v, flavor)
             /\ out.table.rows[r].cells[c] =
                  (IF EmptyValue(v) THEN NaN
                   ELSE IF v.value = "10" THEN <<10>> ELSE <<20>>)
C11_Witness ==
  /\ flavor = "iv" /\ WellFormed(resp) /\ out.status = "ok"
  /\ Len(SeriesOf(resp)) = 1
  /\ Len(RecsOf(SeriesOf(resp)[1])) = 2
  /\ RecsOf(SeriesOf(resp)[1])[1].value = ""
  /\ RecsOf(SeriesOf(resp)[1])[2].value = "20"
  /\ out.table.rows = <<[key |-> 0, cells |-> <<NaN>>], [key |-> 24 * 60, cells |-> <<Num(20)>>]>>

\* ------------------------------------------------------ reading a float cell
RanOn(fn, t) == op = fn /\ tbl = t

\* C12 (as stated): on the 96 samples of one UTC day cycling 1000 .. 1009,
\* daily_features returns one row, for that date, with discharge_cfs_mean
\* 1004.5 to the digit given (within 0.05), discharge_cfs_max 1009 and
\* discharge_cfs_min 1000.
C12_MeanIs1004_5 ==
  RanOn("daily_features", TestTable) =>
    /\ result.status = "ok"
    /\ Len(result.table.rows) = 1
    /\ result.table.rows[1].key = 0
    /\ result.table.columns = <<"discharge_cfs_mean", "discharge_cfs_max", "discharge_cfs_min">>
    /\ LET m == result.table.rows[1].cells[1]
           d == 20 * Numer(m) - 20090 * Denom(m)
       IN m # NaN /\ d <= Denom(m) /\ -d <= Denom(m)
    /\ result.table.rows[1].cells[2] = <<1009>>
    /\ result.table.rows[1].cells[3] = <<1000>>

\* C12 (amended): on those 96 samples daily_features returns one row, for
\* that date, with discharge_cfs_mean exactly 96420 / 96 = 1004.375,
\* discharge_cfs_max 1009 and discharge_cfs_min 1000.
C12_OneDayOfSamples ==
  RanOn("daily_features", TestTable) =>
    /\ result.status = "ok"
    /\ Len(result.table.rows) = 1
    /\ result.table.rows[1].key = 0
    /\ result.table.columns = <<"discharge_cfs_mean", "discharge_cfs_max", "discharge_cfs_min">>
    /\ LET m == result.table.rows[1].cells[1]
       IN m # NaN /\ 1000 * Numer(m) = 1004375 * Denom(m)
    /\ result.table.rows[1].cells[2] = <<1009>>
    /\ result.table.rows[1].cells[3] = <<1000>>
C12_Witness ==
  /\ RanOn("daily_features", TestTable)
  /\ Len(tbl.rows) = 96 /\ tbl.rows[96] = [key |-> 23 * 60 + 45, cells |-> <<Num(1005)>>]
  /\ result.status = "ok"
  /\ result.table.rows = <<[key |-> 0, cells |-> <<<<8035, 8>>, <<1009>>, <<1000>>>>]>>

\* ------------------------------------------- reading a daily_features result
Known == {"discharge_cfs", "stage_ft"}
ColumnAt(t, k) == CHOOSE c \in 1..Len(t.columns) : t.columns[c] = k
\* the rows of t that hold a value of quantity k on day d
ValuedOn(t, k, d) ==
  {i \in 1..Len(t.rows) : t.rows[i].key \div DAY = d /\ t.rows[i].cells[ColumnAt(t, k)] # NaN}
ValueAt(t, k, i) == t.rows[i].cells[ColumnAt(t, k)][1]
RECURSIVE Total(_, _, _)
Total(t, k, I) ==
  IF I = {} THEN 0 ELSE LET i == CHOOSE i \in I : TRUE IN ValueAt(t, k, i) + Total(t, k, I \ {i})
\* row r of the result holds the mean, maximum and minimum of the values of
\* quantity k on its day
AggregatesOf(t, k, r) ==
  LET I  == ValuedOn(t, k, r.key \div DAY)
      m  == r.cells[ColumnAt(result.table, join(k, "mean"))]
      hi == r.cells[ColumnAt(result.table, join(k, "max"))]
      lo == r.cells[ColumnAt(result.table, join(k, "min"))]
  IN IF I = {} THEN m = NaN /\ hi = NaN /\ lo = NaN
     ELSE /\ m # NaN /\ Numer(m) * Cardinality(I) = Total(t, k, I) * Denom(m)
          /\ hi # NaN /\ \A i \in I : ValueAt(t, k, i) <= hi[1]
          /\ hi # NaN /\ \E i \in I : ValueAt(t, k, i) = hi[1]
          /\ lo # NaN /\ \A i \in I : ValueAt(t, k, i) >= lo[1]
          /\ lo # NaN /\ \E i \in I : ValueAt(t, k, i) = lo[1]
FeaturesOf(t) ==
  /\ result.status = "ok"
  /\ Range(result.table.columns) =
       {join(k, how) : k \in Known \cap Range(t.columns), how \in {"mean", "max", "min"}}
  /\ Len(result.table.columns) = 3 * Cardinality(Known \cap Range(t.columns))
  /\ \A n \in 1..Len(result.table.rows) : \A k \in Known \cap Range(t.columns) :
       AggregatesOf(t, k, result.table.rows[n])

\* C13: on every table with at least one row, whichever of discharge_cfs and
\* stage_ft are among its columns (both, one, or neither), daily_features
\* returns without error a table whose columns are exactly <quantity>_mean,
\* _max, _min of the quantities present, each cell the mean / maximum /
\* minimum of the quantity's samples in the row's day.
C13_FeaturesForPresentQuantities ==
  (op = "daily_features" /\ Len(tbl.rows) > 0) => FeaturesOf(tbl)

\* C14: daily_features on a table without rows raises nothing and returns a
\* table without rows (the table it was given), whether the index is
\* zone-aware or naive and whatever the columns are.
C14_EmptyInEmptyOut ==
  (op = "daily_features" /\ Len(tbl.rows) = 0) =>
    /\ result.status = "ok"
    /\ Len(result.table.rows) = 0
    /\ result.table = tbl
C14_Witness ==
  /\ op = "daily_features" /\ Len(tbl.rows) = 0
  /\ tbl.tz = DENVER_TZ /\ tbl.columns = <<"other">>
  /\ result = Return(tbl)

\* C15: to_local of a table with a naive index is that table; to_local of a
\* table that to_local returned is that table again; no table to_local
\* returns carries a zone.
C15_ToLocalIdempotent ==
  /\ (op = "to_local" /\ tbl.tz = "naive") => result = Return(tbl)
  /\ op = "to_local_again" => result = Return(tbl)
  /\ op \in {"to_local", "to_local_again"} => (result.status = "ok" /\ result.table.tz = "naive")
\* the second call, on the Denver wall clock of two UTC instants, one on each
\* side of the change of offset
C15_Witness ==
  /\ op = "to_local_again"
  /\ Len(tbl.rows) = 2
  /\ tbl.rows[1].key = 1 * 60 - 7 * 60
  /\ tbl.rows[2].key = 10 * 60 - 6 * 60
  /\ result = Return(tbl) /\ result.table.tz = "naive"

\* ------------------------------------------- reading a rolling_anoms result
IsMissing(c) == c = NaN
IsInfinite(c) == Len(c) = 3 /\ c[3] = 0
IsZero(c) == Len(c) = 3 /\ c[1] = 0 /\ c[3] # 0
IsDefined(c) == Len(c) = 3 /\ c[3] # 0
\* the floating-point columns of t, by position
FloatColumns(t) == {c \in 1..Len(t.columns) : t.kinds[c] = "f"}
\* the z-score of column c of tbl at row i of the result
ZCell(c, i) == result.table.rows[i].cells[ColumnAt(result.table, z_name(tbl.columns[c]))]
\* the rows of the trailing window of row i that hold a value in column c
Valued(c, i) ==
  {j \in 1..i : j > i - window /\ tbl.rows[j].cells[c] # NaN}
\* the standard deviation of those values is zero: they are all equal
ZeroStd(c, i) == \A j, k \in Valued(c, i) : tbl.rows[j].cells[c] = tbl.rows[k].cells[c]
Scored ==
  op = "rolling_anoms" /\ result.status = "ok" /\ Len(tbl.rows) > 0

\* C16: in every table rolling_anoms returns, each scored column has its
\* first min_periods - 1 = 6 z-scores missing, and from the 7th row on the
\* z-score is a finite number whenever the trailing window holds at least 7
\* values, the row's own value is present and the window's values are not
\* all equal.
C16_DefinedFromSeventhRow ==
  Scored =>
    \A c \in FloatColumns(tbl) : \A i \in 1..Len(tbl.rows) :
      /\ i <= min_periods - 1 => IsMissing(ZCell(c, i))
      /\ (/\ i >= min_periods
          /\ Cardinality(Valued(c, i)) >= min_periods
          /\ tbl.rows[i].cells[c] # NaN
          /\ ~ZeroStd(c, i)) => IsDefined(ZCell(c, i))
C16_Witness ==
  /\ Scored /\ window = min_periods
  /\ tbl.columns = <<"discharge_cfs_mean">>
  /\ [i \in 1..Len(tbl.rows) |-> tbl.rows[i].cells[1]]
       = <<Num(10), Num(20), Num(10), Num(10), Num(10), Num(10), Num(10), Num(20)>>
  /\ \A i \in 1..6 : IsMissing(ZCell(1, i))
  /\ IsDefined(ZCell(1, 7)) /\ ZCell(1, 7)[1] = -1
  /\ IsDefined(ZCell(1, 8)) /\ ZCell(1, 8)[1] = 1

\* column c of tbl holds a value in every row
NoGaps(c) == \A i \in 1..Len(tbl.rows) : tbl.rows[i].cells[c] # NaN

\* C17 (as stated): with window W, the z-scores of a scored column that are
\* undefined for lack of history are exactly those of its first W - 7 rows
\* (23 rows for W = 30): on a column without gaps the first W - 7 z-scores
\* are missing and every later one with a non-constant window is a number.
C17_FirstWMinus7Undefined ==
  Scored =>
    \A c \in FloatColumns(tbl) : \A i \in 1..Len(tbl.rows) :
      NoGaps(c) =>
        /\ i <= window - min_periods => IsMissing(ZCell(c, i))
        /\ (i > window - min_periods /\ ~ZeroStd(c, i)) => IsDefined(ZCell(c, i))

\* C17 (amended): whatever the window W >= 7, a z-score is undefined for lack
\* of history exactly when its trailing window holds fewer than min_periods
\* = 7 values, which on a column without gaps means the first 6 rows; such a
\* cell is missing, neither 0 nor infinite, and on a column without gaps
\* every later z-score with a non-constant window is a number.
C17_FirstSixUndefined ==
  Scored =>
    \A c \in FloatColumns(tbl) : \A i \in 1..Len(tbl.rows) :
      /\ Cardinality(Valued(c, i)) < min_periods =>
           (IsMissing(ZCell(c, i)) /\ ~IsZero(ZCell(c, i)) /\ ~IsInfinite(ZCell(c, i)))
      /\ NoGaps(c) => (Cardinality(Valued(c, i)) < min_periods <=> i <= min_periods - 1)
      /\ (NoGaps(c) /\ i >= min_periods /\ ~ZeroStd(c, i)) => IsDefined(ZCell(c, i))
C17_Witness ==
  /\ Scored /\ window = default_window
  /\ tbl.columns = <<"n_samples", "discharge_cfs_mean", "site">>
  /\ Len(tbl.rows) = 8 /\ NoGaps(2)
  /\ tbl.rows[1].cells[2] = Num(20) /\ \A i \in 2..8 : tbl.rows[i].cells[2] = Num(10)
  /\ \A i \in 1..6 : IsMissing(ZCell(2, i))
  /\ IsDefined(ZCell(2, 7)) /\ IsDefined(ZCell(2, 8))

\* C18: a call of rolling_anoms with a window of at least min_periods rows
\* does not raise, and at every row whose trailing window holds at least 7
\* values, all equal (standard deviation zero), the z-score is missing:
\* neither 0 nor an infinity.
C18_ZeroStdIsMissing ==
  (op = "rolling_anoms" /\ window >= min_periods) =>
    /\ result.status = "ok"
    /\ \A c \in FloatColumns(tbl) : \A i \in 1..Len(tbl.rows) :
         (Cardinality(Valued(c, i)) >= min_periods /\ ZeroStd(c, i)) =>
           (IsMissing(ZCell(c, i)) /\ ~IsZero(ZCell(c, i)) /\ ~IsInfinite(ZCell(c, i)))
\* row 7 has a 20 in its window and is scored; the window of row 8 holds
\* seven times 10
C18_Witness ==
  /\ Scored /\ window = min_periods
  /\ tbl.columns = <<"discharge_cfs_mean">>
  /\ Len(tbl.rows) = 8
  /\ tbl.rows[1].cells[1] = Num(20) /\ \A i \in 2..8 : tbl.rows[i].cells[1] = Num(10)
  /\ IsDefined(ZCell(1, 7))
  /\ ZeroStd(1, 8) /\ Cardinality(Valued(1, 8)) = 7 /\ IsMissing(ZCell(1, 8))

\* the columns of t with the given name kept as they are in the result
PassedThrough(t, c) ==
  /\ result.table.columns[c] = t.columns[c]
  /\ \A i \in 1..Len(t.rows) : result.table.rows[i].cells[c] = t.rows[i].cells[c]

\* C19: the table rolling_anoms returns holds a <col>_z column for every
\* numeric column of its input, of floating-point or of integer type, none
\* for a non-numeric column, and every input column unchanged.
C19_EveryNumericColumnScored ==
  Scored =>
    /\ Range(result.table.columns) =
         Range(tbl.columns) \cup {z_name(tbl.columns[c]) : c \in {c \in 1..Len(tbl.columns) : tbl.kinds[c] \in {"f", "i"}}}
    /\ \A c \in 1..Len(tbl.columns) : PassedThrough(tbl, c)

\* C20: whatever the daily table and the window (1 or more), rolling_anoms
\* returns a table with the rows of its input, in the same index order, with
\* every input column unchanged, followed by z-score columns only.
C20_RowsAndColumnsPreserved ==
  (op = "rolling_anoms" /\ window >= 1) =>
    /\ result.status = "ok"
    /\ Len(result.table.rows) = Len(tbl.rows)
    /\ \A i \in 1..Len(tbl.rows) : result.table.rows[i].key = tbl.rows[i].key
    /\ Len(result.table.columns) >= Len(tbl.columns)
    /\ \A c \in 1..Len(tbl.columns) : PassedThrough(tbl, c)
    /\ \A c \in (Len(tbl.columns) + 1)..Len(result.table.columns) :
         \E k \in 1..Len(tbl.columns) : result.table.columns[c] = z_name(tbl.columns[k])

\* C21: a call that finds an artifact goes on to read it and never to the
\* fetch; reading an artifact that is no parquet file ends the call with the
\* reader's exception and without a table, sends no request and leaves every
\* file as it is, so the next call on the key meets the same bytes; a call
\* on a miss hands back its table only when the artifact has been written,
\* and a call ended by a failure hands back no table.
C21_CacheFailuresPropagate ==
  [][\A p \in Procs :
       /\ (pc[p] = "exists" /\ pc'[p] # "exists" /\ FileOf(p).exists) => pc'[p] = "read"
       /\ (pc[p] = "read" /\ pc'[p] # "read" /\ FileOf(p).content = Garbage) =>
            /\ pc'[p] = "failed" /\ err'[p] = "ArrowInvalid" /\ df'[p] = NoTable
            /\ disk' = disk /\ requests' = requests
       /\ (pc[p] = "write" /\ pc'[p] = "done") =>
            /\ df'[p] = df[p]
            /\ disk'[path(key[p])].exists /\ disk'[path(key[p])].content = to_parquet(df[p])
       /\ pc'[p] = "failed" => df'[p] = NoTable]_vars
\* the third call on a key: the first wrote the artifact, which was damaged
\* afterwards, and the second failed on it as this one does
C21_Witness ==
  \E p \in Procs :
    /\ pc[p] = "failed" /\ hit[p] /\ err[p] = "ArrowInvalid" /\ df[p] = NoTable
    /\ FileOf(p).exists /\ FileOf(p).content = Garbage
    /\ calls = 3 /\ requests[key[p]] = 1 /\ failed[key[p]] = 2
    /\ lastWriter[path(key[p])] # "nobody"

\* the calendar days on which t holds a sample
SampleDays(t) == {t.rows[i].key \div DAY : i \in 1..Len(t.rows)}
HasQuantity(t) == Known \cap Range(t.columns) # {}

\* C22: on a table with samples and at least one of the two quantities,
\* daily_features returns one row for each calendar day from the day of the
\* earliest sample to the day of the latest, in order: a day with samples
\* holds their aggregates, a day without any holds missing cells only.
C22_OneRowPerDayOfSpan ==
  (op = "daily_features" /\ Len(tbl.rows) > 0 /\ HasQuantity(tbl)) =>
    /\ result.status = "ok"
    /\ LET first == MinOf(SampleDays(tbl))
           last  == MaxOf(SampleDays(tbl))
           R     == result.table.rows
       IN /\ Len(R) = last - first + 1
          /\ \A n \in 1..Len(R) :
               /\ R[n].key = (first + n - 1) * DAY
               /\ (first + n - 1) \in SampleDays(tbl) =>
                    \A k \in Known \cap Range(tbl.columns) : AggregatesOf(tbl, k, R[n])
               /\ (first + n - 1) \notin SampleDays(tbl) =>
                    \A c \in 1..Len(R[n].cells) : R[n].cells[c] = NaN
\* samples on day 0 and on day 2, none on day 1
C22_Witness ==
  /\ op = "daily_features" /\ tbl.columns = <<"discharge_cfs">> /\ tbl.tz = "UTC"
  /\ tbl.rows = <<[key |-> 1 * 60, cells |-> <<Num(10)>>], [key |-> 50 * 60, cells |-> <<Num(20)>>]>>
  /\ result.status = "ok"
  /\ result.table.rows = <<[key |-> 0, cells |-> <<Num(10), Num(10), Num(10)>>],
                           [key |-> DAY, cells |-> <<NaN, NaN, NaN>>],
                           [key |-> 2 * DAY, cells |-> <<Num(20), Num(20), Num(20)>>]>>

\* the calendar day of sample i of t on the wall clock of the table's own
\* zone, and in UTC (for a naive table both are the day of the value as given)
LocalDay(t, i) == (t.rows[i].key + utcoffset(t.tz, t.rows[i].key)) \div DAY
UtcDay(t, i) == t.rows[i].key \div DAY
\* the row of the result a sample of day d is counted in
RowOfDay(d) == {n \in 1..Len(result.table.rows) : result.table.rows[n].key = d * DAY}

\* C23: daily_features counts every sample in the row of its UTC calendar
\* date, whatever the zone of the input, and for a naive input in the row of
\* the date of its wall-clock value; two samples of one local day that fall
\* on two UTC dates are counted in two rows.
C23_BucketsAreUtcDates ==
  (op = "daily_features" /\ Len(tbl.rows) > 0 /\ HasQuantity(tbl)) =>
    /\ result.status = "ok" /\ result.table.tz = "naive"
    /\ \A i \in 1..Len(tbl.rows) :
         /\ Cardinality(RowOfDay(UtcDay(tbl, i))) = 1
         /\ \A n \in RowOfDay(UtcDay(tbl, i)) : \A k \in Known \cap Range(tbl.columns) :
              AggregatesOf(tbl, k, result.table.rows[n])
    /\ \A i, j \in 1..Len(tbl.rows) :
         (LocalDay(tbl, i) = LocalDay(tbl, j) /\ UtcDay(tbl, i) # UtcDay(tbl, j)) =>
           RowOfDay(UtcDay(tbl, i)) \cap RowOfDay(UtcDay(tbl, j)) = {}
\* 04:00 and 19:00 of one Denver day, 10:00 UTC of day 0 and 01:00 UTC of
\* day 1
C23_Witness ==
  /\ op = "daily_features" /\ tbl.tz = DENVER_TZ /\ tbl.columns = <<"stage_ft">>
  /\ tbl.rows = <<[key |-> 10 * 60, cells |-> <<Num(10)>>], [key |-> 25 * 60, cells |-> <<Num(20)>>]>>
  /\ LocalDay(tbl, 1) = LocalDay(tbl, 2) /\ UtcDay(tbl, 1) # UtcDay(tbl, 2)
  /\ result.status = "ok"
  /\ result.table.rows = <<[key |-> 0, cells |-> <<Num(10), Num(10), Num(10)>>],
                           [key |-> DAY, cells |-> <<Num(20), Num(20), Num(20)>>]>>

\* the quantity codes of the series of r that hold a record
CodesWithRecords(r) ==
  {CodeOf(SeriesOf(r)[i]) : i \in {i \in 1..Len(SeriesOf(r)) : RecsOf(SeriesOf(r)[i]) # <<>>}}

\* C24: a table fetch_iv / fetch_dv returns has one column for each distinct
\* quantity code that holds records in the response, no two columns of one
\* name, also when two series carry the same code; fetch_iv shows 00060 and
\* 00065 as discharge_cfs and stage_ft and never under the raw code.
C24_OneColumnPerCode ==
  (flavor # "none" /\ WellFormed(resp) /\ out.status = "ok") =>
    /\ Len(out.table.columns) = Cardinality(CodesWithRecords(resp))
    /\ Cardinality(Range(out.table.columns)) = Len(out.table.columns)
    /\ flavor = "iv" =>
         /\ Range(out.table.columns) = {FriendlyIV(c) : c \in CodesWithRecords(resp)}
         /\ Range(out.table.columns) \cap {DISCHARGE_CFS, STAGE_FT} = {}

\* C25: a fetch that fails on a miss changes no file: no artifact appears at
\* the key's path and the call ends without a table; an artifact exists only
\* for a key one of whose fetches succeeded, so after failures alone the next
\* call on the key misses and sends a request of its own.
C25_State ==
  /\ \A k \in CallKeys : disk[path(k)].exists => requests[k] > failed[k]
  /\ \A p \in Procs : (pc[p] = "failed" /\ ~hit[p]) => df[p] = NoTable
C25_FailedFetchLeavesCacheUntouched ==
  /\ []C25_State
  /\ [][\A p \in Procs :
          /\ (pc[p] = "fetch" /\ pc'[p] = "failed") =>
               /\ disk' = disk /\ ~disk'[path(key[p])].exists
               /\ requests'[key[p]] = requests[key[p]] + 1
          /\ (pc[p] = "exists" /\ pc'[p] # "exists" /\ requests[key[p]] = failed[key[p]]) =>
               pc'[p] = "fetch"]_vars
\* the second call on a key whose first call failed in the fetch: a miss
\* again, a second request, no artifact
C25_Witness ==
  \E p \in Procs :
    /\ pc[p] = "failed" /\ ~hit[p] /\ err[p] = "HTTPStatusError"
    /\ calls = 2 /\ requests[key[p]] = 2 /\ failed[key[p]] = 2
    /\ ~FileOf(p).exists

\* C26: the path of a key is the path of no other key, whatever the site
\* codes (also with "/" or "-") and the tags iv_<n>d, dv_<n>y, so the
\* artifact a call finds was written by a call on its own key: a fetch on
\* that key succeeded before.
C26_KeysNeverShareArtifact ==
  \A p \in PathProcs :
    pc[p] # "idle" =>
      /\ \A k \in PathKeys : k # key[p] => path(k) # path(key[p])
      /\ hit[p] => requests[key[p]] > failed[key[p]]

====
